---- MODULE Spec2Model ----
(***************************************************************************)
(* Model of scripts/pretty_print_braces/__main__.py: the brace scanner     *)
(* (extract_braces), the per-file analysis (analyze_file), the directory   *)
(* walk with its bounded heap (walk_through_directory) and the printing of *)
(* the retained results (pretty_print_dir).                                *)
(*                                                                         *)
(* Strings are sequences of one-character strings; Python lists are        *)
(* sequences (Python index i is TLA+ index i + 1).  Line 85 of the source  *)
(* is written "char === '{'"; it is read as the equality test on '{'.      *)
(***************************************************************************)
EXTENDS Integers, Sequences, FiniteSets, TLC

\* ------------------------------------------------------------------ bounds
\* Longest text the stepped scanner is run on.
MaxLen == 6
\* Most entries in a generated directory listing.
MaxFiles == 3
\* Largest heap capacity n of a generated run.
MaxK == 3
\* Longest generated file name given to the extension filter.
MaxName == 4
\* Most calls of extract_braces in one run of repeated calls.
MaxCalls == 3
\* Longest text of a run of repeated calls.
MaxCallLen == 4

\* ----------------------------------------------------------------- strings
\* Character codes of the characters the model uses (ASCII), for Python's
\* string comparison.
Ord(c) ==
    CASE c = "\n" -> 10
      [] c = " " -> 32
      [] c = "." -> 46
      [] c = "/" -> 47
      [] c = "A" -> 65
      [] c = "B" -> 66
      [] c = "C" -> 67
      [] c = "H" -> 72
      [] c = "P" -> 80
      [] c = "a" -> 97
      [] c = "b" -> 98
      [] c = "c" -> 99
      [] c = "d" -> 100
      [] c = "e" -> 101
      [] c = "f" -> 102
      [] c = "h" -> 104
      [] c = "p" -> 112
      [] c = "r" -> 114
      [] c = "x" -> 120
      [] c = "{" -> 123
      [] c = "}" -> 125

INDENT == <<" ", " ", " ", " ">>
LINE_SEPARATOR == <<"\n">>

RECURSIVE Repeat(_, _)
\* Python's  s * k : the empty string when k <= 0.
Repeat(s, k) == IF k <= 0 THEN <<>> ELSE s \o Repeat(s, k - 1)

RECURSIVE Join(_, _)
\* Python's  sep.join(lines)
Join(sep, lines) ==
    IF lines = <<>> THEN <<>>
    ELSE IF Len(lines) = 1 THEN lines[1]
    ELSE lines[1] \o sep \o Join(sep, Tail(lines))

RECURSIVE SeqsUpTo(_, _)
\* All sequences over S of length at most k.
SeqsUpTo(S, k) ==
    IF k = 0 THEN {<<>>}
    ELSE LET shorter == SeqsUpTo(S, k - 1)
         IN  shorter \cup {Append(s, c) : s \in shorter, c \in S}

RECURSIVE Sum(_)
Sum(s) == IF s = <<>> THEN 0 ELSE s[1] + Sum(Tail(s))

\* ----------------------------------------------------------------- scanner
\* Python's list indexing: 0 <= d < len is position d, -len <= d < 0 counts
\* from the end, anything else raises IndexError.
PyIndexInRange(d, len) == d >= -len /\ d < len
PyIndex(d, len) == IF d >= 0 THEN d + 1 ELSE len + d + 1

\* increment_depth_occurence appending 0 for a new depth, leaving the first
\* occurrence uncounted.
increment_depth_occurence_AppendZero(depths, d) ==
    IF d < Len(depths)
    THEN IF PyIndexInRange(d, Len(depths))
         THEN [raised |-> FALSE,
               depths |-> [depths EXCEPT ![PyIndex(d, Len(depths))] = @ + 1]]
         ELSE [raised |-> TRUE, depths |-> depths]
    ELSE [raised |-> FALSE, depths |-> Append(depths, 0)]

\* increment_depth_occurence(d) on the list depths: the list afterwards, or
\* IndexError raised by depths[d].
increment_depth_occurence(depths, d) ==
    IF d < Len(depths)
    THEN IF PyIndexInRange(d, Len(depths))
         THEN [raised |-> FALSE,
               depths |-> [depths EXCEPT ![PyIndex(d, Len(depths))] = @ + 1]]
         ELSE [raised |-> TRUE, depths |-> depths]
    ELSE [raised |-> FALSE, depths |-> Append(depths, 1)]

\* The locals of extract_braces at its start (line 76).
ScanStart == [current_depth |-> 0, depths |-> <<0>>, braces |-> <<>>,
              raised |-> FALSE]

\* OpenBrace with lines 88 and 89 exchanged: the histogram is incremented
\* for the depth before the increment.
OpenBrace_CountOldDepth(s, q) ==
    LET line == Repeat(INDENT, s.current_depth) \o <<"{">>
        inc  == increment_depth_occurence(s.depths, s.current_depth)
    IN  [current_depth |-> s.current_depth + 1,
         depths        |-> inc.depths,
         braces        |-> IF q THEN s.braces ELSE Append(s.braces, line),
         raised        |-> inc.raised]

\* OpenBrace with lines 88 and 89 indented under "if not quiet": the depth
\* is counted only when the line is rendered.
OpenBrace_CountOnlyWhenRendering(s, q) ==
    LET line == Repeat(INDENT, s.current_depth) \o <<"{">>
        d    == s.current_depth + 1
        inc  == increment_depth_occurence(s.depths, d)
    IN  IF q THEN s
        ELSE [current_depth |-> d,
              depths        |-> inc.depths,
              braces        |-> Append(s.braces, line),
              raised        |-> inc.raised]

\* The body of the loop for an opening brace (lines 85-89).
OpenBrace(s, q) ==
    LET line == Repeat(INDENT, s.current_depth) \o <<"{">>
        d    == s.current_depth + 1
        inc  == increment_depth_occurence(s.depths, d)
    IN  [current_depth |-> d,
         depths        |-> inc.depths,
         braces        |-> IF q THEN s.braces ELSE Append(s.braces, line),
         raised        |-> inc.raised]

\* CloseBrace with the line rendered before the depth is decremented.
CloseBrace_RenderBeforeDecrement(s, q) ==
    LET d    == s.current_depth - 1
        line == Repeat(INDENT, s.current_depth) \o <<"}">>
    IN  [current_depth |-> d,
         depths        |-> s.depths,
         braces        |-> IF q THEN s.braces ELSE Append(s.braces, line),
         raised        |-> FALSE]

\* The body of the loop for a closing brace (lines 90-93).
CloseBrace(s, q) ==
    LET d    == s.current_depth - 1
        line == Repeat(INDENT, d) \o <<"}">>
    IN  [current_depth |-> d,
         depths        |-> s.depths,
         braces        |-> IF q THEN s.braces ELSE Append(s.braces, line),
         raised        |-> FALSE]

\* ScanStep with "else" in place of "elif char == '}'": every character other
\* than '{' is taken as a closing brace.
ScanStep_ElseCloses(s, char, q) ==
    IF char = "{" THEN OpenBrace(s, q) ELSE CloseBrace(s, q)

\* One iteration of the loop of extract_braces (lines 84-93).
ScanStep(s, char, q) ==
    IF char = "{" THEN OpenBrace(s, q)
    ELSE IF char = "}" THEN CloseBrace(s, q)
    ELSE s

\* ScanResult with max_depth taken as len(depths): the entry of depth 0 is
\* counted as a level.
ScanResult_CountDepthZero(s, filename) ==
    [max_depth |-> Len(s.depths),
     depths    |-> Tail(s.depths),
     braces    |-> Join(LINE_SEPARATOR, s.braces),
     filename  |-> filename]

\* The value extract_braces returns (lines 94-95).
ScanResult(s, filename) ==
    [max_depth |-> Len(s.depths) - 1,
     depths    |-> Tail(s.depths),
     braces    |-> Join(LINE_SEPARATOR, s.braces),
     filename  |-> filename]

RECURSIVE ScanFrom(_, _, _)
\* The loop of extract_braces over the text, stopping where it raises.
ScanFrom(s, text, q) ==
    IF text = <<>> \/ s.raised THEN s
    ELSE ScanFrom(ScanStep(s, Head(text), q), Tail(text), q)

\* extract_braces(source_code, filename, quiet): the result, or raised.
extract_braces(source_code, filename, q) ==
    LET s == ScanFrom(ScanStart, source_code, q)
    IN  [raised |-> s.raised, result |-> ScanResult(s, filename)]

\* ---------------------------------------------------------------- ordering
RECURSIVE IntSeqLess(_, _)
\* Python's  a < b  on lists of integers.
IntSeqLess(a, b) ==
    IF b = <<>> THEN FALSE
    ELSE IF a = <<>> THEN TRUE
    ELSE IF a[1] # b[1] THEN a[1] < b[1]
    ELSE IntSeqLess(Tail(a), Tail(b))

RECURSIVE StrLess(_, _)
\* Python's  a < b  on strings.
StrLess(a, b) ==
    IF b = <<>> THEN FALSE
    ELSE IF a = <<>> THEN TRUE
    ELSE IF a[1] # b[1] THEN Ord(a[1]) < Ord(b[1])
    ELSE StrLess(Tail(a), Tail(b))

\* The comparison the docstring of walk_through_directory describes:
\* elements compared by the first element of the tuple only.
TupleLess_FirstElementOnly(a, b) == a.max_depth < b.max_depth

\* Python's  a < b  on the tuples extract_braces returns (line 95):
\* (max_depth, depths, braces, filename), compared element by element.
TupleLess(a, b) ==
    IF a.max_depth # b.max_depth THEN a.max_depth < b.max_depth
    ELSE IF a.depths # b.depths THEN IntSeqLess(a.depths, b.depths)
    ELSE IF a.braces # b.braces THEN StrLess(a.braces, b.braces)
    ELSE StrLess(a.filename, b.filename)

\* -------------------------------------------------------------------- heapq
\* The heap is a Python list: position p (0-based) is heap[p + 1].
RECURSIVE SiftDown(_, _, _, _)
\* heapq._siftdown(heap, startpos, pos), carrying newitem up from pos.
SiftDown(heap, startpos, pos, newitem) ==
    IF pos > startpos
    THEN LET parentpos == (pos - 1) \div 2
             parent    == heap[parentpos + 1]
         IN  IF TupleLess(newitem, parent)
             THEN SiftDown([heap EXCEPT ![pos + 1] = parent],
                           startpos, parentpos, newitem)
             ELSE [heap EXCEPT ![pos + 1] = newitem]
    ELSE [heap EXCEPT ![pos + 1] = newitem]

RECURSIVE BubbleUp(_, _, _)
\* The loop of heapq._siftup: the smaller child moves up until a leaf is hit.
BubbleUp(heap, pos, newitem) ==
    LET endpos   == Len(heap)
        leftpos  == 2 * pos + 1
        rightpos == leftpos + 1
        childpos == IF rightpos < endpos
                       /\ ~TupleLess(heap[leftpos + 1], heap[rightpos + 1])
                    THEN rightpos ELSE leftpos
    IN  IF leftpos < endpos
        THEN BubbleUp([heap EXCEPT ![pos + 1] = heap[childpos + 1]],
                      childpos, newitem)
        ELSE [heap |-> heap, pos |-> pos]

\* heapq._siftup(heap, pos)
SiftUp(heap, pos) ==
    LET newitem == heap[pos + 1]
        b       == BubbleUp(heap, pos, newitem)
    IN  SiftDown([b.heap EXCEPT ![b.pos + 1] = newitem], pos, b.pos, newitem)

\* heapq.heappush(heap, item): the heap afterwards.
HeapqPush(heap, item) ==
    LET appended == Append(heap, item)
    IN  SiftDown(appended, 0, Len(appended) - 1, item)

\* heapq.heappushpop(heap, item): the heap afterwards and the item returned.
HeapqPushPop(heap, item) ==
    IF heap # <<>> /\ TupleLess(heap[1], item)
    THEN [heap |-> SiftUp([heap EXCEPT ![1] = item], 0), item |-> heap[1]]
    ELSE [heap |-> heap, item |-> item]

\* heapq.heappop(heap) on a non-empty heap.
HeapqPop(heap) ==
    LET lastelt == heap[Len(heap)]
        rest    == SubSeq(heap, 1, Len(heap) - 1)
    IN  IF rest # <<>>
        THEN [heap |-> SiftUp([rest EXCEPT ![1] = lastelt], 0), item |-> heap[1]]
        ELSE [heap |-> rest, item |-> lastelt]

\* heappush of walk_through_directory with heapq.heapreplace semantics: at
\* capacity the minimum is always replaced by the new element.
heappush_AlwaysReplace(heap, element, heap_max_size) ==
    IF Len(heap) < heap_max_size
    THEN [heap |-> HeapqPush(heap, element), dropped |-> <<>>]
    ELSE IF heap = <<>> THEN [heap |-> heap, dropped |-> <<element>>]
    ELSE [heap |-> SiftUp([heap EXCEPT ![1] = element], 0),
          dropped |-> <<heap[1]>>]

\* heappush(h, element) of walk_through_directory (lines 120-126): the heap
\* afterwards and the element heappushpop returned (dropped by the caller).
heappush(heap, element, heap_max_size) ==
    IF Len(heap) < heap_max_size
    THEN [heap |-> HeapqPush(heap, element), dropped |-> <<>>]
    ELSE LET pp == HeapqPushPop(heap, element)
         IN  [heap |-> pp.heap, dropped |-> <<pp.item>>]

\* --------------------------------------------------------- extension filter
\* re.I folds the case of letters.
Lower(c) ==
    CASE c = "A" -> "a"
      [] c = "B" -> "b"
      [] c = "C" -> "c"
      [] c = "H" -> "h"
      [] c = "P" -> "p"
      [] OTHER -> c

\* Case-insensitive match of the literal alternative e against the text t.
MatchesLiteral(t, e) ==
    /\ Len(t) = Len(e)
    /\ \A j \in 1..Len(e) : Lower(t[j]) = Lower(e[j])

\* The positions at which '$' matches: the end of the string, and just
\* before a line break that ends the string.
DollarEnds(name) ==
    {Len(name)} \cup
    (IF name # <<>> /\ name[Len(name)] = "\n" THEN {Len(name) - 1} ELSE {})

\* The filter without the closing '$' of the pattern: the extension may be
\* followed by anything.
file_extension_supported_NoEndAnchor(filename, file_extensions) ==
    \E k \in 2..Len(filename), e \in file_extensions, end \in 0..Len(filename) :
        /\ \A j \in 1..(k - 1) : filename[j] # "\n"
        /\ filename[k] = "."
        /\ end >= k
        /\ MatchesLiteral(SubSeq(filename, k + 1, end), e)

\* file_extension_supported(filename) (lines 128-129): re.match of
\* '^.+\.(e1|e2|...)$' with re.I.  '.+' is one or more characters other
\* than a line break, '\.' a literal dot at position k, then one of the
\* extensions (taken literally: letters and digits only), then '$'.
file_extension_supported(filename, file_extensions) ==
    \E k \in 2..Len(filename), e \in file_extensions, end \in DollarEnds(filename) :
        /\ \A j \in 1..(k - 1) : filename[j] # "\n"
        /\ filename[k] = "."
        /\ end >= k
        /\ MatchesLiteral(SubSeq(filename, k + 1, end), e)

\* ------------------------------------------------------------- file system
\* os.path.join(dirpath, filename) for the paths of the model.
join(dirpath, filename) == dirpath \o <<"/">> \o filename

Stems == <<"a", "b", "c", "d", "e", "f">>
DotH == <<".", "h">>
DotHpp == <<".", "h", "p", "p">>
\* The name of the entry at position i of a listing.
NameAt(i, suffix) == <<Stems[i]>> \o suffix

RECURSIVE Nest(_)
\* d opening braces around d closing braces: maximum depth d.
Nest(d) == IF d = 0 THEN <<>> ELSE <<"{">> \o Nest(d - 1) \o <<"}">>

\* The file contents of the generated listings: depth 0, depth 1 once,
\* depth 1 twice, and a text the scanner raises on.
WalkTexts == {<<>>, <<"{", "}">>, <<"{", "}", "{", "}">>, <<"}", "}", "}", "{">>}

\* A regular file: io is "ok", "noopen" (open fails) or "noread" (read fails).
File(name, io, text) ==
    [name |-> name, isdir |-> FALSE, io |-> io, text |-> text, children |-> <<>>]
\* A directory with its listing.
Dir(name, children) ==
    [name |-> name, isdir |-> TRUE, io |-> "ok", text |-> <<>>, children |-> children]

\* What a subdirectory may hold.
SubListings == {<<>>, <<File(NameAt(1, DotH), "ok", <<"{", "}">>)>>}

\* The entries that may stand at position i of the root listing.
EntryOptions(i) ==
    {File(NameAt(i, DotHpp), "ok", <<>>)}
    \cup {File(NameAt(i, DotH), "ok", t) : t \in WalkTexts}
    \cup {File(NameAt(i, DotH), io, <<>>) : io \in {"noopen", "noread"}}
    \cup {Dir(NameAt(i, DotH), c) : c \in SubListings}

RECURSIVE Listings(_)
\* All listings of at most k entries.
Listings(k) ==
    IF k = 0 THEN {<<>>}
    ELSE LET shorter == Listings(k - 1)
         IN  shorter \cup
             {Append(l, e) : l \in {x \in shorter : Len(x) = k - 1},
                             e \in EntryOptions(k)}

\* Example 4 of the specification: six files with maximum depths
\* 1, 4, 2, 5, 3, 0.
Example4Depths == <<1, 4, 2, 5, 3, 0>>
Example4Listing ==
    [i \in 1..Len(Example4Depths) |->
        File(NameAt(i, DotH), "ok", Nest(Example4Depths[i]))]

RootPath == <<"r">>

\* ------------------------------------------------------------------- state
VARIABLES
    source_code,    \* extract_braces: the text being scanned
    pos,            \* extract_braces: number of characters consumed
    scan,           \* extract_braces: current_depth, depths, braces
    scan_pc,        \* extract_braces: "idle", "loop", "returned" or "raised"
    scan_result,    \* extract_braces: the returned tuple
    calls,          \* history: the number of calls of extract_braces so far
    quiet,          \* the quiet argument (args.quiet)
    filter_name,    \* file_extension_supported: the file name asked about
    filter_pc,      \* file_extension_supported: "idle", "call" or "returned"
    supported,      \* file_extension_supported: the value returned
    pc,             \* pretty_print_dir: "idle", "start", "loop", "opened",
                    \*   "scanned", "print", "done" or "error"
    n,              \* args.n, the heap's capacity
    recursive,      \* not args.nonrecursive
    file_extensions, \* args.extensions.split(',')
    root_exists,    \* whether args.path names a directory
    fs,             \* the listing of the directory at args.path
    dirpath,        \* process_directory: the directory being processed
    filenames,      \* process_directory: the entries still to be looked at
    pending,        \* os.walk: the directories still to be walked
    h,              \* the heap of walk_through_directory
    cur,            \* analyze_file: the path and entry being analyzed
    result,         \* analyze_file: the tuple extract_braces returned
    handles,        \* the paths of the file objects that are open
    count,          \* pretty_print_dir: min(len(heap), args.n)
    printed,        \* the results print_result has written, in order
    offers,         \* history: the number of heappush calls
    offered,        \* history: the results passed to heappush
    discarded,      \* history: the results heappushpop returned
    opened,         \* history: the paths open() was called on, in order
    failed          \* history: the path at which an exception was raised

scanvars == <<source_code, pos, scan, scan_pc, scan_result, calls>>
filtervars == <<filter_name, filter_pc, supported>>
confvars == <<n, recursive, file_extensions, root_exists, fs>>
walkvars == <<pc, dirpath, filenames, pending, h, cur, result, handles,
              count, printed, offers, offered, discarded, opened, failed>>
vars == <<scanvars, filtervars, quiet, confvars, walkvars>>

Chars == {"{", "}", "x"}
Texts == SeqsUpTo(Chars, MaxLen)
ScanFileName == <<"f">>
NoResult == [max_depth |-> 0, depths |-> <<>>, braces |-> <<>>, filename |-> <<>>]
NoFile == [path |-> <<>>, entry |-> File(<<>>, "ok", <<>>)]

ScanIdle ==
    /\ source_code = <<>>
    /\ pos = 0
    /\ scan = ScanStart
    /\ scan_pc = "idle"
    /\ scan_result = NoResult
    /\ calls = 0

FilterIdle ==
    /\ filter_name = <<>>
    /\ filter_pc = "idle"
    /\ supported = FALSE

WalkIdle ==
    /\ pc = "idle"
    /\ n = 0
    /\ recursive = FALSE
    /\ root_exists = FALSE
    /\ fs = <<>>

WalkStart ==
    /\ dirpath = <<>>
    /\ filenames = <<>>
    /\ pending = <<>>
    /\ h = <<>>
    /\ cur = NoFile
    /\ result = NoResult
    /\ handles = {}
    /\ count = 0
    /\ printed = <<>>
    /\ offers = 0
    /\ offered = {}
    /\ discarded = {}
    /\ opened = <<>>
    /\ failed = <<>>

\* --------------------------------------------------- extract_braces, stepped
ScanInit ==
    /\ source_code \in Texts
    /\ quiet \in BOOLEAN
    /\ pos = 0
    /\ scan = ScanStart
    /\ scan_pc = "loop"
    /\ scan_result = NoResult
    /\ calls = 1
    /\ FilterIdle
    /\ file_extensions = {}
    /\ WalkIdle
    /\ WalkStart

ScanChar ==
    /\ scan_pc = "loop"
    /\ pos < Len(source_code)
    /\ LET s == ScanStep(scan, source_code[pos + 1], quiet)
       IN  /\ scan' = s
           /\ scan_pc' = IF s.raised THEN "raised" ELSE "loop"
    /\ pos' = pos + 1
    /\ UNCHANGED <<source_code, scan_result, calls, quiet, filtervars, confvars, walkvars>>

ScanReturn ==
    /\ scan_pc = "loop"
    /\ pos = Len(source_code)
    /\ scan_result' = ScanResult(scan, ScanFileName)
    /\ scan_pc' = "returned"
    /\ UNCHANGED <<source_code, pos, scan, calls, quiet, filtervars, confvars, walkvars>>

ScanNext == ScanChar \/ ScanReturn

SpecScan == ScanInit /\ [][ScanNext]_vars

\* ------------------------------------------- extract_braces, called repeatedly
CallTexts == SeqsUpTo(Chars, MaxCallLen)

CallsInit ==
    /\ source_code \in CallTexts
    /\ quiet \in BOOLEAN
    /\ pos = 0
    /\ scan = ScanStart
    /\ scan_pc = "loop"
    /\ scan_result = NoResult
    /\ calls = 1
    /\ FilterIdle
    /\ file_extensions = {}
    /\ WalkIdle
    /\ WalkStart

\* ScanAgain with the list of rendered lines kept from the call before, as
\* a buffer shared between calls would be.
ScanAgain_KeepBraces ==
    /\ scan_pc \in {"returned", "raised"}
    /\ calls < MaxCalls
    /\ source_code' \in CallTexts
    /\ quiet' \in BOOLEAN
    /\ pos' = 0
    /\ scan' = [ScanStart EXCEPT !.braces = scan.braces]
    /\ scan_pc' = "loop"
    /\ scan_result' = NoResult
    /\ calls' = calls + 1
    /\ UNCHANGED <<filtervars, confvars, walkvars>>

\* extract_braces is called again, with any arguments: its locals are
\* created anew (line 76); nothing of the call before is kept.
ScanAgain ==
    /\ scan_pc \in {"returned", "raised"}
    /\ calls < MaxCalls
    /\ source_code' \in CallTexts
    /\ quiet' \in BOOLEAN
    /\ pos' = 0
    /\ scan' = ScanStart
    /\ scan_pc' = "loop"
    /\ scan_result' = NoResult
    /\ calls' = calls + 1
    /\ UNCHANGED <<filtervars, confvars, walkvars>>

CallsNext == ScanChar \/ ScanReturn \/ ScanAgain

SpecCalls == CallsInit /\ [][CallsNext]_vars

\* ------------------------------------------- file_extension_supported, called
NameChars == {"a", "h", "H", ".", "\n"}
ExampleNames ==
    {<<"a", ".", "h">>, <<"b", ".", "H">>, <<"a", ".", "h", "p", "p">>,
     <<"f", "o", "o", ".", "c", "p", "p">>,
     <<"f", "o", "o", ".", "c", "p", "p", ".", "b", "a", "k">>}
Names == SeqsUpTo(NameChars, MaxName) \cup ExampleNames
Extensions == {<<"h">>, <<"c", "p", "p">>, <<>>}
ExtensionSets == (SUBSET Extensions) \ {{}}

FilterInit ==
    /\ filter_name \in Names
    /\ file_extensions \in ExtensionSets
    /\ filter_pc = "call"
    /\ supported = FALSE
    /\ quiet = FALSE
    /\ ScanIdle
    /\ WalkIdle
    /\ WalkStart

FilterCall ==
    /\ filter_pc = "call"
    /\ supported' = file_extension_supported(filter_name, file_extensions)
    /\ filter_pc' = "returned"
    /\ UNCHANGED <<filter_name, scanvars, quiet, confvars, walkvars>>

FilterNext == FilterCall

SpecFilter == FilterInit /\ [][FilterNext]_vars

\* --------------------------------------------------------- pretty_print_dir
Min(a, b) == IF a <= b THEN a ELSE b

\* The non-directory entries of a listing, as os.walk yields them.
NonDirs(listing) == SelectSeq(listing, LAMBDA e : ~e.isdir)

\* The subdirectories of a listing, as os.walk goes on to walk them.
SubDirs(path, listing) ==
    LET dirs == SelectSeq(listing, LAMBDA e : e.isdir)
    IN  [i \in 1..Len(dirs) |->
            [path |-> join(path, dirs[i].name), listing |-> dirs[i].children]]

\* The expected output of Example 4.
Example4Drain == <<3, 4, 5>>

Init ==
    /\ quiet \in BOOLEAN
    /\ recursive \in BOOLEAN
    /\ file_extensions \in {{<<"h">>}, {<<>>}}
    /\ \/ /\ root_exists = TRUE
          /\ fs \in Listings(MaxFiles)
          /\ n \in -1..MaxK
       \/ /\ root_exists = FALSE
          /\ fs = <<>>
          /\ n \in -1..MaxK
       \/ /\ root_exists = TRUE
          /\ fs = Example4Listing
          /\ n \in 1..Len(Example4Drain)
    /\ pc = "start"
    /\ WalkStart
    /\ ScanIdle
    /\ FilterIdle

\* walk_through_directory, recursive (lines 142-144): os.walk(rootpath)
\* lists the root; an error of that listing is ignored by os.walk, which
\* then yields nothing.
StartWalk ==
    /\ pc = "start"
    /\ recursive
    /\ pc' = "loop"
    /\ dirpath' = RootPath
    /\ filenames' = IF root_exists THEN NonDirs(fs) ELSE <<>>
    /\ pending' = IF root_exists THEN SubDirs(RootPath, fs) ELSE <<>>
    /\ UNCHANGED <<h, cur, result, handles, count, printed, offers, offered,
                   discarded, opened, failed>>
    /\ UNCHANGED <<scanvars, filtervars, quiet, confvars>>

\* walk_through_directory, not recursive (lines 145-146): os.listdir(rootpath)
\* returns every entry of the root, directories included.
StartListdir ==
    /\ pc = "start"
    /\ ~recursive
    /\ root_exists
    /\ pc' = "loop"
    /\ dirpath' = RootPath
    /\ filenames' = fs
    /\ UNCHANGED <<pending, h, cur, result, handles, count, printed, offers,
                   offered, discarded, opened, failed>>
    /\ UNCHANGED <<scanvars, filtervars, quiet, confvars>>

\* os.listdir(rootpath) raises OSError when the root does not exist (line 146).
StartListdirFails ==
    /\ pc = "start"
    /\ ~recursive
    /\ ~root_exists
    /\ pc' = "error"
    /\ UNCHANGED <<dirpath, filenames, pending, h, cur, result, handles, count,
                   printed, offers, offered, discarded, opened, failed>>
    /\ UNCHANGED <<scanvars, filtervars, quiet, confvars>>

\* process_directory: a name the filter rejects is skipped (line 137).
SkipFile ==
    /\ pc = "loop"
    /\ filenames # <<>>
    /\ ~file_extension_supported(Head(filenames).name, file_extensions)
    /\ filenames' = Tail(filenames)
    /\ UNCHANGED <<pc, dirpath, pending, h, cur, result, handles, count,
                   printed, offers, offered, discarded, opened, failed>>
    /\ UNCHANGED <<scanvars, filtervars, quiet, confvars>>

\* OpenFile with the exception of open() caught and the file skipped.
OpenFile_SkipUnreadable ==
    /\ pc = "loop"
    /\ filenames # <<>>
    /\ file_extension_supported(Head(filenames).name, file_extensions)
    /\ LET e    == Head(filenames)
           path == join(dirpath, e.name)
       IN  /\ opened' = Append(opened, path)
           /\ IF e.isdir \/ e.io = "noopen"
              THEN /\ filenames' = Tail(filenames)
                   /\ failed' = path
                   /\ UNCHANGED <<pc, cur, handles>>
              ELSE /\ pc' = "opened"
                   /\ cur' = [path |-> path, entry |-> e]
                   /\ handles' = handles \cup {path}
                   /\ UNCHANGED <<failed, filenames>>
    /\ UNCHANGED <<dirpath, pending, h, result, count, printed,
                   offers, offered, discarded>>
    /\ UNCHANGED <<scanvars, filtervars, quiet, confvars>>

\* process_directory calls analyze_file, which opens the file (lines 138-139,
\* 101).  open() raises IOError on a directory and on a file that cannot be
\* opened; nothing catches it.
OpenFile ==
    /\ pc = "loop"
    /\ filenames # <<>>
    /\ file_extension_supported(Head(filenames).name, file_extensions)
    /\ LET e    == Head(filenames)
           path == join(dirpath, e.name)
       IN  /\ opened' = Append(opened, path)
           /\ IF e.isdir \/ e.io = "noopen"
              THEN /\ pc' = "error"
                   /\ failed' = path
                   /\ UNCHANGED <<cur, handles>>
              ELSE /\ pc' = "opened"
                   /\ cur' = [path |-> path, entry |-> e]
                   /\ handles' = handles \cup {path}
                   /\ UNCHANGED failed
    /\ UNCHANGED <<dirpath, filenames, pending, h, result, count, printed,
                   offers, offered, discarded>>
    /\ UNCHANGED <<scanvars, filtervars, quiet, confvars>>

\* analyze_file reads the file and scans it (lines 102-103).  An exception
\* of file.read() or of extract_braces leaves analyze_file before line 104:
\* the file object is not closed.
ReadScan ==
    /\ pc = "opened"
    /\ LET r == extract_braces(cur.entry.text, cur.path, quiet)
       IN  IF cur.entry.io = "noread" \/ r.raised
           THEN /\ pc' = "error"
                /\ failed' = cur.path
                /\ UNCHANGED result
           ELSE /\ pc' = "scanned"
                /\ result' = r.result
                /\ UNCHANGED failed
    /\ UNCHANGED <<dirpath, filenames, pending, h, cur, handles, count,
                   printed, offers, offered, discarded, opened>>
    /\ UNCHANGED <<scanvars, filtervars, quiet, confvars>>

\* analyze_file closes the file and returns; process_directory offers the
\* result to the heap and goes on to the next name (lines 104-105, 140).
CloseOffer ==
    /\ pc = "scanned"
    /\ handles' = handles \ {cur.path}
    /\ LET hp == heappush(h, result, n)
       IN  /\ h' = hp.heap
           /\ discarded' = discarded \cup {hp.dropped[i] : i \in 1..Len(hp.dropped)}
    /\ offers' = offers + 1
    /\ offered' = offered \cup {result}
    /\ filenames' = Tail(filenames)
    /\ pc' = "loop"
    /\ UNCHANGED <<dirpath, pending, cur, result, count, printed, opened, failed>>
    /\ UNCHANGED <<scanvars, filtervars, quiet, confvars>>

\* os.walk goes on to the next directory, top-down (lines 143-144).
NextDir ==
    /\ pc = "loop"
    /\ filenames = <<>>
    /\ pending # <<>>
    /\ LET d == Head(pending)
       IN  /\ dirpath' = d.path
           /\ filenames' = NonDirs(d.listing)
           /\ pending' = SubDirs(d.path, d.listing) \o Tail(pending)
    /\ UNCHANGED <<pc, h, cur, result, handles, count, printed, offers,
                   offered, discarded, opened, failed>>
    /\ UNCHANGED <<scanvars, filtervars, quiet, confvars>>

\* walk_through_directory returns the heap; pretty_print_dir evaluates
\* range(min(len(heap), args.n)) (lines 147, 204-205).
EndWalk ==
    /\ pc = "loop"
    /\ filenames = <<>>
    /\ pending = <<>>
    /\ pc' = "print"
    /\ count' = Min(Len(h), n)
    /\ UNCHANGED <<dirpath, filenames, pending, h, cur, result, handles,
                   printed, offers, offered, discarded, opened, failed>>
    /\ UNCHANGED <<scanvars, filtervars, quiet, confvars>>

\* PrintOne taking the heap's list in index order instead of heappop.
PrintOne_ListOrder ==
    /\ pc = "print"
    /\ Len(printed) < count
    /\ h' = Tail(h)
    /\ printed' = Append(printed, Head(h))
    /\ UNCHANGED <<pc, dirpath, filenames, pending, cur, result, handles,
                   count, offers, offered, discarded, opened, failed>>
    /\ UNCHANGED <<scanvars, filtervars, quiet, confvars>>

\* One iteration of the loop of pretty_print_dir (lines 205-208).
PrintOne ==
    /\ pc = "print"
    /\ Len(printed) < count
    /\ LET p == HeapqPop(h)
       IN  /\ h' = p.heap
           /\ printed' = Append(printed, p.item)
    /\ UNCHANGED <<pc, dirpath, filenames, pending, cur, result, handles,
                   count, offers, offered, discarded, opened, failed>>
    /\ UNCHANGED <<scanvars, filtervars, quiet, confvars>>

\* The loop of pretty_print_dir ends (line 205).
EndPrint ==
    /\ pc = "print"
    /\ Len(printed) >= count
    /\ pc' = "done"
    /\ UNCHANGED <<dirpath, filenames, pending, h, cur, result, handles,
                   count, printed, offers, offered, discarded, opened, failed>>
    /\ UNCHANGED <<scanvars, filtervars, quiet, confvars>>

Next ==
    \/ StartWalk
    \/ StartListdir
    \/ StartListdirFails
    \/ SkipFile
    \/ OpenFile
    \/ ReadScan
    \/ CloseOffer
    \/ NextDir
    \/ EndWalk
    \/ PrintOne
    \/ EndPrint

Spec == Init /\ [][Next]_vars

\* ------------------------------------- the walk over every order of a listing
\* The names and contents of the files that are ranked.
RankNames == {NameAt(i, DotH) : i \in 1..MaxFiles}
RankTexts == {<<"{", "}">>, <<"{", "}", "{", "}">>, <<"{", "{", "}", "}">>}

\* No two entries of the listing have the same name.
DistinctNames(l) ==
    \A i, j \in 1..Len(l) : i < j => l[i].name # l[j].name

RECURSIVE RankListings(_)
\* Every listing of at most k readable files with pairwise distinct names,
\* in every order.
RankListings(k) ==
    IF k = 0 THEN {<<>>}
    ELSE LET shorter == RankListings(k - 1)
             longer  == {Append(l, File(nm, "ok", t)) :
                            l \in {x \in shorter : Len(x) = k - 1},
                            nm \in RankNames, t \in RankTexts}
         IN  shorter \cup {l \in longer : DistinctNames(l)}

RankInit ==
    /\ quiet \in BOOLEAN
    /\ recursive = FALSE
    /\ file_extensions = {<<"h">>}
    /\ root_exists = TRUE
    /\ fs \in RankListings(MaxFiles)
    /\ n \in 1..MaxK
    /\ pc = "start"
    /\ WalkStart
    /\ ScanIdle
    /\ FilterIdle

RankNext ==
    \/ StartListdir
    \/ OpenFile
    \/ ReadScan
    \/ CloseOffer
    \/ EndWalk
    \/ PrintOne
    \/ EndPrint

SpecRank == RankInit /\ [][RankNext]_vars

\* ------------------------------------------------------- reference scanner
\* Independent of the scanner above: counts taken directly on the text.
CountIn(text, k, c) == Cardinality({j \in 1..k : text[j] = c})
Opens(text) == CountIn(text, Len(text), "{")
Closes(text) == CountIn(text, Len(text), "}")
\* The running depth after the first k characters.
RefDepthAt(text, k) == CountIn(text, k, "{") - CountIn(text, k, "}")
Balanced(text) ==
    /\ Opens(text) = Closes(text)
    /\ \A k \in 0..Len(text) : RefDepthAt(text, k) >= 0
RefMaxDepth(text) ==
    CHOOSE m \in 0..Len(text) :
        /\ \E k \in 0..Len(text) : RefDepthAt(text, k) = m
        /\ \A k \in 0..Len(text) : RefDepthAt(text, k) <= m
\* The number of opening braces at which the running depth becomes lvl.
EnterCount(text, lvl) ==
    Cardinality({k \in 1..Len(text) :
                    text[k] = "{" /\ RefDepthAt(text, k) = lvl})

\* ------------------------------------------------------------------ claims
\* C3: for every balanced text extract_braces returns, the sum of the
\* returned depth counts is the number of opening braces and the returned
\* maximum depth is the maximum nesting depth of the reference scanner;
\* "{{}}" gives 2 and [1, 1], "{}{}" gives 1 and [2].
C3_BalancedCounts ==
    /\ Balanced(source_code) => scan_pc # "raised"
    /\ (scan_pc = "returned" /\ Balanced(source_code)) =>
          /\ Sum(scan_result.depths) = Opens(source_code)
          /\ scan_result.max_depth = RefMaxDepth(source_code)
    /\ (scan_pc = "returned" /\ source_code = <<"{", "{", "}", "}">>) =>
          /\ scan_result.max_depth = 2
          /\ scan_result.depths = <<1, 1>>
    /\ (scan_pc = "returned" /\ source_code = <<"{", "}", "{", "}">>) =>
          /\ scan_result.max_depth = 1
          /\ scan_result.depths = <<2>>

C3_Witness ==
    /\ scan_pc = "returned"
    /\ source_code = <<"{", "{", "}", "}">>
    /\ Balanced(source_code)
    /\ scan_result.max_depth = 2
    /\ scan_result.depths = <<1, 1>>

\* C4: no text makes extract_braces raise: the scan never reaches an error
\* state, whatever surplus of closing braces precedes an opening brace.
C4_NeverRaises == scan_pc # "raised"

\* C5: whenever extract_braces returns, the sum of the returned depth counts
\* is the number of opening braces of the text.
C5_SumIsOpens ==
    scan_pc = "returned" => Sum(scan_result.depths) = Opens(source_code)

\* C6: whenever extract_braces returns, entry i (0-based) of the returned
\* depth counts is the number of opening braces at which the running depth
\* becomes i + 1; openings that bring the depth to 0 or below count nowhere.
C6_CountsPerDepth ==
    scan_pc = "returned" =>
        \A i \in 1..scan_result.max_depth :
            scan_result.depths[i] = EnterCount(source_code, i)

\* ----------------------------------------------------- claims on the walk
Range(q) == {q[i] : i \in 1..Len(q)}

\* C1: with capacity n >= 1, after every offer of the walk the heap holds
\* min(n, offers so far) results, they are exactly the offered results not
\* dropped, and none of them is less than a result dropped earlier.
C1_TopK ==
    (n >= 1 /\ pc \in {"loop", "opened", "scanned", "error"}) =>
        /\ Len(h) = Min(n, offers)
        /\ Range(h) = offered \ discarded
        /\ \A r \in Range(h), d \in discarded : ~TupleLess(r, d)

C1_Witness ==
    /\ pc = "loop"
    /\ n = 2
    /\ offers = 6
    /\ Len(h) = 2
    /\ Cardinality(discarded) = 4
    /\ \E d \in discarded : d.max_depth = 1
    /\ \E d \in discarded : d.max_depth = 3
    /\ \A r \in Range(h), d \in discarded : ~TupleLess(r, d)

\* C2: with capacity n >= 1, a walk that ends has printed min(n, scanned
\* files) results, each retained result once, in non-decreasing order of
\* the result tuples; files of depths 1, 4, 2, 5, 3, 0 with n = 3 are
\* printed as depths 3, 4, 5.
C2_DrainOrder ==
    (n >= 1 /\ pc = "done") =>
        /\ Len(printed) = Min(n, offers)
        /\ Cardinality(Range(printed)) = Len(printed)
        /\ Range(printed) = offered \ discarded
        /\ \A i \in 1..(Len(printed) - 1) : ~TupleLess(printed[i + 1], printed[i])
        /\ (fs = Example4Listing /\ offers = Len(Example4Depths)
                                 /\ n = Len(Example4Drain)) =>
              [i \in 1..Len(printed) |-> printed[i].max_depth] = Example4Drain

C2_Witness ==
    /\ pc = "done"
    /\ fs = Example4Listing
    /\ n = 3
    /\ offers = 6
    /\ [i \in 1..Len(printed) |-> printed[i].max_depth] = <<3, 4, 5>>

\* C7: a run with n <= 0, with a root that does not exist or with the empty
\* extension set ends in an error before any file is opened, and prints
\* nothing.
InvalidConfig == n <= 0 \/ ~root_exists \/ file_extensions = {<<>>}
C7_InvalidConfigRejected ==
    (InvalidConfig /\ pc # "start") =>
        /\ pc = "error"
        /\ opened = <<>>
        /\ printed = <<>>

\* C8: once opening, reading or scanning a file has raised, the run is in
\* its error state, that file is the last one open() was called on, and
\* nothing has been printed.
C8_AbortOnUnreadable ==
    failed # <<>> =>
        /\ pc = "error"
        /\ printed = <<>>
        /\ opened # <<>>
        /\ opened[Len(opened)] = failed

C8_Witness ==
    /\ pc = "error"
    /\ offers >= 1
    /\ Len(filenames) >= 2
    /\ Head(filenames).io \in {"noopen", "noread"}
    /\ failed = join(dirpath, Head(filenames).name)
    /\ printed = <<>>

\* C9: at most one file object is open, and none is open outside
\* analyze_file: not between two files, not after an exception has left
\* analyze_file, not while printing, not at the end.
C9_HandlesScoped ==
    /\ Cardinality(handles) <= 1
    /\ pc \notin {"opened", "scanned"} => handles = {}

\* ------------------------------------------- claims on the extension filter
\* The name ends with '.' followed by one of the extensions, case ignored.
EndsWithDotExt(name, exts) ==
    \E e \in exts :
        /\ Len(name) >= Len(e) + 1
        /\ name[Len(name) - Len(e)] = "."
        /\ \A j \in 1..Len(e) :
              Lower(name[Len(name) - Len(e) + j]) = Lower(e[j])

\* The name is a stem of at least one character, none a line break, then
\* '.', then one of the extensions, case ignored.
StemDotExt(name, exts) ==
    /\ EndsWithDotExt(name, exts)
    /\ \E e \in exts :
          /\ Len(name) >= Len(e) + 2
          /\ name[Len(name) - Len(e)] = "."
          /\ \A j \in 1..Len(e) :
                Lower(name[Len(name) - Len(e) + j]) = Lower(e[j])
          /\ \A j \in 1..(Len(name) - Len(e) - 1) : name[j] # "\n"

\* The name without the line break that ends it, if one does.
ChompLineBreak(name) ==
    IF name # <<>> /\ name[Len(name)] = "\n"
    THEN SubSeq(name, 1, Len(name) - 1) ELSE name

RECURSIVE RegularFilesUnder(_, _, _, _)
\* The paths of the regular files with a name the filter accepts among the
\* entries of the listing at path: the immediate children, and with deep
\* also those of every subdirectory, transitively.
RegularFilesUnder(path, listing, exts, deep) ==
    IF listing = <<>> THEN {}
    ELSE LET e    == Head(listing)
             here == IF e.isdir
                     THEN IF deep
                          THEN RegularFilesUnder(join(path, e.name), e.children,
                                                 exts, deep)
                          ELSE {}
                     ELSE IF file_extension_supported(e.name, exts)
                          THEN {join(path, e.name)} ELSE {}
         IN  here \cup RegularFilesUnder(path, Tail(listing), exts, deep)

\* C11: every entry the walk opens is a regular file with a matching name
\* inside the boundary (the immediate children of the root when not
\* recursive, everything under the root when recursive), never a directory;
\* a walk that returns has opened exactly those files.
C11_WalkBoundary ==
    LET inside == RegularFilesUnder(RootPath, fs, file_extensions, recursive)
    IN  /\ Range(opened) \subseteq inside
        /\ pc \in {"print", "done"} => Range(opened) = inside

\* ------------------------------------------------------ claims on the ranking
\* The lexicographic order on sequences, by the first position at which
\* they differ; a proper prefix is less.
RefSeqLess(a, b, code(_)) ==
    \E k \in 1..Len(b) :
        /\ \A j \in 1..(k - 1) : j <= Len(a) /\ a[j] = b[j]
        /\ k > Len(a) \/ code(a[k]) < code(b[k])

\* The order of the claim: (maxDepth, depthCounts, rendered text, source
\* identifier), compared lexicographically.
RefLess(a, b) ==
    \/ a.max_depth < b.max_depth
    \/ /\ a.max_depth = b.max_depth
       /\ \/ RefSeqLess(a.depths, b.depths, LAMBDA x : x)
          \/ /\ a.depths = b.depths
             /\ \/ RefSeqLess(a.braces, b.braces, Ord)
                \/ /\ a.braces = b.braces
                   /\ RefSeqLess(a.filename, b.filename, Ord)

\* The results of the files of a listing, as a set: the order of the
\* listing plays no part in it.
ResultsOf(listing) ==
    {extract_braces(e.text, join(RootPath, e.name), quiet).result :
        e \in Range(listing)}

\* The k greatest results of a set.
Greatest(S, k) == {r \in S : Cardinality({x \in S : RefLess(r, x)}) < k}

C13_QuietSameCounts ==
    LET other == extract_braces(source_code, ScanFileName, ~quiet)
    IN  /\ scan_pc = "raised" => other.raised
        /\ scan_pc = "returned" =>
              /\ ~other.raised
              /\ other.result.max_depth = scan_result.max_depth
              /\ other.result.depths = scan_result.depths
              /\ quiet => scan_result.braces = <<>>

C13_Witness ==
    /\ scan_pc = "returned"
    /\ quiet
    /\ source_code = <<"{", "{", "}", "}">>
    /\ scan_result.depths = <<1, 1>>
    /\ scan_result.braces = <<>>
    /\ extract_braces(source_code, ScanFileName, FALSE).result.braces # <<>>

\* C14: a call of extract_braces made after any earlier calls ends as the
\* first call of a run on the same text, file name and quiet flag does, and
\* returns the same tuple.
C14_NoHiddenState ==
    LET first == extract_braces(source_code, ScanFileName, quiet)
    IN  /\ scan_pc = "raised" => first.raised
        /\ scan_pc = "returned" => ~first.raised /\ scan_result = first.result

C14_Witness ==
    /\ calls = 3
    /\ scan_pc = "returned"
    /\ ~quiet
    /\ source_code = <<"{", "}">>
    /\ scan_result.braces = <<"{", "\n", "}">>

\* C15: whenever extract_braces returns, the length of depths equals
\* max_depth and max_depth >= 0; a text without braces gives max_depth 0,
\* depths [] and an empty rendered text.
C15_LengthIsMaxDepth ==
    scan_pc = "returned" =>
        /\ Len(scan_result.depths) = scan_result.max_depth
        /\ scan_result.max_depth >= 0
        /\ (Opens(source_code) = 0 /\ Closes(source_code) = 0) =>
              /\ scan_result.max_depth = 0
              /\ scan_result.depths = <<>>
              /\ scan_result.braces = <<>>

C15_Witness ==
    /\ scan_pc = "returned"
    /\ source_code = <<"x", "x">>
    /\ ~quiet
    /\ scan_result.max_depth = 0
    /\ scan_result.depths = <<>>
    /\ scan_result.braces = <<>>

\* The indentation of the claim: max(0, d) units.
RefIndent(d) == IF d > 0 THEN d ELSE 0

RECURSIVE RefLines(_, _)
\* The lines the rendering rule gives for the first k characters of the
\* text: one per brace, in text order; '{' indented by the depth before it,
\* '}' by the depth after it.
RefLines(text, k) ==
    IF k = 0 THEN <<>>
    ELSE LET before == RefLines(text, k - 1)
             units(m) == [i \in 1..(Len(INDENT) * m) |-> " "]
         IN  IF text[k] = "{"
             THEN Append(before,
                         units(RefIndent(RefDepthAt(text, k - 1))) \o <<"{">>)
             ELSE IF text[k] = "}"
             THEN Append(before,
                         units(RefIndent(RefDepthAt(text, k))) \o <<"}">>)
             ELSE before

RECURSIVE Concat(_)
\* The lines with a line break between each two.
Concat(lines) ==
    IF Len(lines) = 0 THEN <<>>
    ELSE IF Len(lines) = 1 THEN lines[1]
    ELSE Concat(SubSeq(lines, 1, Len(lines) - 1)) \o <<"\n">> \o lines[Len(lines)]

StripOthers(text) == SelectSeq(text, LAMBDA c : c = "{" \/ c = "}")

\* C17: the state of the scan after any prefix of the text is the state
\* after that prefix with its non-brace characters removed, so the scan of
\* a text ends as the scan of the stripped text does, with the same result.
C17_OthersIgnored ==
    scan_pc # "idle" =>
        LET stripped == extract_braces(StripOthers(source_code), ScanFileName, quiet)
        IN  /\ scan = ScanFrom(ScanStart,
                               StripOthers(SubSeq(source_code, 1, pos)), quiet)
            /\ scan_pc = "raised" => stripped.raised
            /\ scan_pc = "returned" =>
                  ~stripped.raised /\ scan_result = stripped.result

C17_Witness ==
    /\ scan_pc = "returned"
    /\ ~quiet
    /\ source_code = <<"x", "{", "x", "}", "x">>
    /\ scan_result.depths = <<1>>
    /\ scan_result.braces = <<"{", "\n", "}">>

\* C18: at every step of the scan the running depth is at most
\* len(depths) - 1, so a new entry is appended only for d = len(depths);
\* every entry of depths but the first is at least 1, and a closing brace
\* leaves depths as it was.
C18_ScannerInvariant ==
    scan_pc # "idle" =>
        /\ scan.current_depth <= Len(scan.depths) - 1
        /\ \A i \in 2..Len(scan.depths) : scan.depths[i] >= 1
        /\ scan_pc = "returned" =>
              \A i \in 1..Len(scan_result.depths) : scan_result.depths[i] >= 1
        /\ (pos >= 1 /\ source_code[pos] = "}") =>
              scan.depths =
                  ScanFrom(ScanStart, SubSeq(source_code, 1, pos - 1), quiet).depths

C18_Witness ==
    /\ scan_pc = "returned"
    /\ source_code = <<"{", "{", "}", "{", "}", "}">>
    /\ scan.depths = <<0, 1, 2>>
    /\ scan.current_depth = 0

====
